---- MODULE Spec2Model ----
(***************************************************************************)
(* Build resume and state-transition subsystem of the Build State API      *)
(* (api_service/app/routers: state_codes, builds, artifacts, variables,    *)
(* resume).  Every HTTP handler is one atomic action: it runs its queries, *)
(* raises HTTPException (recorded in res, nothing else changes) or commits *)
(* its writes.  Row identifiers are small integers given in creation       *)
(* order; timestamps are abstracted to that order.  The routers address    *)
(* the build row through end_date / current_state_code_id and the history  *)
(* row through state_code_id, while resume.py reads the same facts as      *)
(* current_state / state: the model keeps one field for each fact.         *)
(***************************************************************************)
EXTENDS Integers, Sequences, FiniteSets, TLC

\* ------------------------------------------------------------------ bounds
MaxStateCodes == 2
MaxBuilds == 1
MaxHistory == 2
\* the resume context as a function of the history (SpecContext)
MaxContextHistory == 3
MaxStateId == 1
\* the failure scenario (SpecScenario)
ScenarioHistory == 3
ScenarioArtifacts == 1
\* the artifact tracker and the variable store (SpecArtifacts, SpecVariables)
MaxArtifacts == 2
MaxVariables == 2
\* the resume requests (SpecRequests)
MaxRequests == 1
\* the calls each worker makes in a race (SpecRace)
MaxCalls == 1

Projects == {1}
Names == {"a", "b"}
\* The flags a state code is created with, as <<is_initial, is_final, is_error>>:
\* initial, initial and final, plain, final, error, final and error.
Flags == {<<TRUE, FALSE, FALSE>>, <<TRUE, TRUE, FALSE>>, <<FALSE, FALSE, FALSE>>,
          <<FALSE, TRUE, FALSE>>, <<FALSE, FALSE, TRUE>>, <<FALSE, TRUE, TRUE>>}
Keys == {"k1", "k2"}
Values == {"v1", "v2"}
Mask == "******"

ArtifactStateCodes == {5, 10}
HistoryStatuses == {"running", "completed", "failed", "error"}

\* An optional request field: <<>> when the request leaves it out, <<v>> when
\* it sets it to v.
Opt(S) == {<<>>} \cup {<<v>> : v \in S}

VARIABLES
    state_codes,      \* table state_codes (models.py StateCode): project_id, name, flags, end_date set
    builds,           \* table builds: project_id, current_state_code_id, status, end_date set
    build_states,     \* table build_states, in creation order: build_id, state, status
    build_artifacts,  \* table build_artifacts (models.py BuildArtifact), in creation order
    build_variables,  \* table build_variables (models.py BuildVariable)
    resumable_states, \* table resumable_states (models.py ResumableState)
    resume_requests,  \* table resume_requests (models.py ResumeRequest), in creation order
    sessions,         \* per worker, the request it is serving: the Build object its
                      \* SQLAlchemy session loaded and changed, not yet committed
    res               \* the response of the last request

vars == <<state_codes, builds, build_states, build_artifacts, build_variables,
          resumable_states, resume_requests, sessions, res>>

\* ------------------------------------------------------------------ rows
\* A state code's id is its position minus one (the first created is 0).
StateCodeIds == 0..(Len(state_codes) - 1)
StateCode(id) == state_codes[id + 1]
BuildIds == 1..Len(builds)

\* The response of the last request: the handler, the HTTP status, the
\* reason of an HTTPException, the addressed row and the name the request
\* carried ("" when it carries none).
NamedResponse(op, code, detail, target, arg) ==
    [op |-> op, code |-> code, detail |-> detail, target |-> target, arg |-> arg]

Response(op, code, detail, target) == NamedResponse(op, code, detail, target, "")

\* ------------------------------------------------------------------ state registry
ActiveByName_anyProject(project_id, name) ==
    {id \in StateCodeIds : /\ StateCode(id).name = name
                           /\ ~StateCode(id).ended}

ActiveByName(project_id, name) ==
    {id \in StateCodeIds : /\ StateCode(id).project_id = project_id
                           /\ StateCode(id).name = name
                           /\ ~StateCode(id).ended}

ActiveInitial_anyInitial(project_id) ==
    {id \in StateCodeIds : /\ StateCode(id).project_id = project_id
                           /\ StateCode(id).is_initial}

ActiveInitial(project_id) ==
    {id \in StateCodeIds : /\ StateCode(id).project_id = project_id
                           /\ StateCode(id).is_initial
                           /\ ~StateCode(id).ended}

create_state_code(project_id, name, is_initial, is_final, is_error) ==
    /\ IF ActiveByName(project_id, name) # {}
       THEN /\ res' = Response("create_state_code", 400, "name exists", project_id)
            /\ UNCHANGED state_codes
       ELSE IF is_initial /\ ActiveInitial(project_id) # {}
       THEN /\ res' = Response("create_state_code", 400, "initial exists", project_id)
            /\ UNCHANGED state_codes
       ELSE /\ state_codes' = Append(state_codes,
                  [project_id |-> project_id, name |-> name, is_initial |-> is_initial,
                   is_final |-> is_final, is_error |-> is_error, ended |-> FALSE])
            /\ res' = Response("create_state_code", 201, "", project_id)
    /\ UNCHANGED <<builds, build_states, build_artifacts, build_variables, resumable_states, resume_requests, sessions>>

\* PUT /projects/{project_id}/state-codes/{state_code_id}: every field the
\* request sets (dict(exclude_unset=True)) is written as given.
Given(field, old) == IF field = <<>> THEN old ELSE field[1]

update_state_code(project_id, state_code_id, name, is_initial, is_final, is_error) ==
    /\ IF \/ state_code_id \notin StateCodeIds
          \/ StateCode(state_code_id).project_id # project_id
          \/ StateCode(state_code_id).ended
       THEN /\ res' = Response("update_state_code", 404, "state code not found",
                                state_code_id)
            /\ UNCHANGED state_codes
       ELSE /\ state_codes' = [state_codes EXCEPT ![state_code_id + 1] =
                  [@ EXCEPT !.name = Given(name, @),
                            !.is_initial = Given(is_initial, @),
                            !.is_final = Given(is_final, @),
                            !.is_error = Given(is_error, @)]]
            /\ res' = Response("update_state_code", 200, "", state_code_id)
    /\ UNCHANGED <<builds, build_states, build_artifacts, build_variables, resumable_states, resume_requests, sessions>>

\* DELETE /projects/{project_id}/state-codes/{state_code_id}
ActiveBuildsAt_none(state_code_id) == {}

ActiveBuildsAt(state_code_id) ==
    {b \in BuildIds : /\ builds[b].current_state_code_id = state_code_id
                      /\ ~builds[b].ended}

delete_state_code(project_id, state_code_id) ==
    /\ IF \/ state_code_id \notin StateCodeIds
          \/ StateCode(state_code_id).project_id # project_id
          \/ StateCode(state_code_id).ended
       THEN /\ res' = Response("delete_state_code", 404, "state code not found",
                                state_code_id)
            /\ UNCHANGED state_codes
       ELSE IF Cardinality(ActiveBuildsAt(state_code_id)) > 0
       THEN /\ res' = Response("delete_state_code", 400, "in use", state_code_id)
            /\ UNCHANGED state_codes
       ELSE /\ state_codes' = [state_codes EXCEPT ![state_code_id + 1].ended = TRUE]
            /\ res' = Response("delete_state_code", 204, "", state_code_id)
    /\ UNCHANGED <<builds, build_states, build_artifacts, build_variables, resumable_states, resume_requests, sessions>>

\* ------------------------------------------------------------------ builds
create_build(project_id) ==
    /\ IF ActiveInitial(project_id) = {}
       THEN /\ res' = Response("create_build", 400, "no initial state", 0)
            /\ UNCHANGED <<builds, build_states>>
       ELSE \E initial_state \in ActiveInitial(project_id) :
            /\ builds' = Append(builds,
                  [project_id |-> project_id, current_state_code_id |-> initial_state,
                   status |-> "running", ended |-> FALSE])
            /\ build_states' = Append(build_states,
                  [build_id |-> Len(builds) + 1, state |-> initial_state,
                   status |-> "running"])
            /\ res' = Response("create_build", 201, "", Len(builds) + 1)
    /\ UNCHANGED <<state_codes, build_artifacts, build_variables, resumable_states, resume_requests, sessions>>

\* POST /builds/{build_id}/state: the early returns, as <<status, detail>>;
\* <<200, "">> when the transition goes ahead.
TransitionError_noTerminalCheck(build_id, state_name) ==
    IF build_id \notin BuildIds THEN <<404, "build not found">>
    ELSE IF ActiveByName(builds[build_id].project_id, state_name) = {}
    THEN <<400, "state not found">>
    ELSE <<200, "">>

TransitionError(build_id, state_name) ==
    IF build_id \notin BuildIds THEN <<404, "build not found">>
    ELSE IF builds[build_id].ended THEN <<400, "terminal">>
    ELSE IF ActiveByName(builds[build_id].project_id, state_name) = {}
    THEN <<400, "state not found">>
    ELSE <<200, "">>

\* "Determine new status": the status and whether end_date is set.
NewStatus_errorFirst(target_state) ==
    IF StateCode(target_state).is_error THEN "failed"
    ELSE IF StateCode(target_state).is_final THEN "completed"
    ELSE "running"

NewStatus(target_state) ==
    IF StateCode(target_state).is_final THEN "completed"
    ELSE IF StateCode(target_state).is_error THEN "failed"
    ELSE "running"

NewEnded_finalOnly(target_state) == StateCode(target_state).is_final

NewEnded(target_state) ==
    StateCode(target_state).is_final \/ StateCode(target_state).is_error

update_build_state(build_id, state_name) ==
    LET err == TransitionError(build_id, state_name)
    IN  /\ IF err[1] # 200
           THEN /\ res' = NamedResponse("update_build_state", err[1], err[2],
                                         build_id, state_name)
                /\ UNCHANGED <<builds, build_states>>
           ELSE \E target_state \in ActiveByName(builds[build_id].project_id, state_name) :
                /\ builds' = [builds EXCEPT ![build_id] =
                      [@ EXCEPT !.current_state_code_id = target_state,
                                !.status = NewStatus(target_state),
                                !.ended = @ \/ NewEnded(target_state)]]
                /\ build_states' = Append(build_states,
                      [build_id |-> build_id, state |-> target_state,
                       status |-> NewStatus(target_state)])
                /\ res' = NamedResponse("update_build_state", 200, "", build_id, state_name)
        /\ UNCHANGED <<state_codes, build_artifacts, build_variables, resumable_states, resume_requests, sessions>>

\* POST /builds/{build_id}/failure: the early returns.
FailureError_noTerminalCheck(build_id) ==
    IF build_id \notin BuildIds THEN <<404, "build not found">>
    ELSE <<200, "">>

FailureError(build_id) ==
    IF build_id \notin BuildIds THEN <<404, "build not found">>
    ELSE IF builds[build_id].ended THEN <<400, "terminal">>
    ELSE <<200, "">>

\* "Update build status to failed"
FailedBuild_resetsPointer(build) ==
    [build EXCEPT !.status = "failed", !.ended = TRUE, !.current_state_code_id = 0]

FailedBuild(build) == [build EXCEPT !.status = "failed", !.ended = TRUE]

\* "Create a failure record in the build_states table"
FailureRow_keepsStatus(build_id) ==
    [build_id |-> build_id, state |-> builds[build_id].current_state_code_id,
     status |-> builds[build_id].status]

FailureRow(build_id) ==
    [build_id |-> build_id, state |-> builds[build_id].current_state_code_id,
     status |-> "failed"]

record_build_failure_overwritesRow(build_id) ==
    LET err == FailureError(build_id)
    IN  /\ IF err[1] # 200
           THEN /\ res' = Response("record_build_failure", err[1], err[2], build_id)
                /\ UNCHANGED <<builds, build_states>>
           ELSE /\ builds' = [builds EXCEPT ![build_id] = FailedBuild(@)]
                /\ build_states' = [build_states EXCEPT
                                       ![Len(build_states)] = FailureRow(build_id)]
                /\ res' = Response("record_build_failure", 200, "", build_id)
        /\ UNCHANGED <<state_codes, build_artifacts, build_variables, resumable_states, resume_requests, sessions>>

record_build_failure(build_id) ==
    LET err == FailureError(build_id)
    IN  /\ IF err[1] # 200
           THEN /\ res' = Response("record_build_failure", err[1], err[2], build_id)
                /\ UNCHANGED <<builds, build_states>>
           ELSE /\ builds' = [builds EXCEPT ![build_id] = FailedBuild(@)]
                /\ build_states' = Append(build_states, FailureRow(build_id))
                /\ res' = Response("record_build_failure", 200, "", build_id)
        /\ UNCHANGED <<state_codes, build_artifacts, build_variables, resumable_states, resume_requests, sessions>>

\* ------------------------------------------------------------------ interleaved writers
\* Two requests served at once. Each handler first loads the Build into its
\* own session and checks it, then assigns the attributes and adds the
\* history row, then commits; another request may commit in between.
Workers == {1, 2}

IdleSession ==
    [pc |-> "idle", op |-> "", build_id |-> 0, arg |-> "", read_at |-> 0, calls |-> 0,
     loaded |-> <<>>, object |-> <<>>, row |-> <<>>]

NoSessions == [w \in Workers |-> IdleSession]

\* update_build_state up to the commit: the build and the target state are
\* read, the attributes assigned on the loaded object, the history row added
\* to the session.
update_build_state_read(w, build_id, state_name) ==
    LET err == TransitionError(build_id, state_name)
    IN  /\ sessions[w].pc # "read"
        /\ IF err[1] # 200
           THEN /\ res' = NamedResponse("update_build_state", err[1], err[2],
                                         build_id, state_name)
                /\ sessions' = [sessions EXCEPT ![w].calls = @ + 1]
           ELSE \E target_state \in ActiveByName(builds[build_id].project_id, state_name) :
                /\ sessions' = [sessions EXCEPT ![w] =
                      [pc |-> "read", op |-> "update_build_state", build_id |-> build_id,
                       arg |-> state_name, read_at |-> Len(build_states),
                       calls |-> @.calls + 1,
                       loaded |-> builds[build_id],
                       object |-> [builds[build_id] EXCEPT
                                     !.current_state_code_id = target_state,
                                     !.status = NewStatus(target_state),
                                     !.ended = @ \/ NewEnded(target_state)],
                       row |-> [build_id |-> build_id, state |-> target_state,
                                status |-> NewStatus(target_state)]]]
                /\ UNCHANGED res
        /\ UNCHANGED <<state_codes, builds, build_states, build_artifacts, build_variables,
                       resumable_states, resume_requests>>

\* record_build_failure up to the commit.
record_build_failure_read(w, build_id) ==
    LET err == FailureError(build_id)
    IN  /\ sessions[w].pc # "read"
        /\ IF err[1] # 200
           THEN /\ res' = Response("record_build_failure", err[1], err[2], build_id)
                /\ sessions' = [sessions EXCEPT ![w].calls = @ + 1]
           ELSE /\ sessions' = [sessions EXCEPT ![w] =
                      [pc |-> "read", op |-> "record_build_failure", build_id |-> build_id,
                       arg |-> "", read_at |-> Len(build_states),
                       calls |-> @.calls + 1,
                       loaded |-> builds[build_id],
                       object |-> FailedBuild(builds[build_id]),
                       row |-> FailureRow(build_id)]]
                /\ UNCHANGED res
        /\ UNCHANGED <<state_codes, builds, build_states, build_artifacts, build_variables,
                       resumable_states, resume_requests>>

\* The UPDATE a flush emits sets the columns whose attribute differs from
\* the value the session loaded, and no other column.
Flush_wholeRow(stored, loaded, object) == object

Flush(stored, loaded, object) ==
    [column \in DOMAIN stored |->
        IF object[column] # loaded[column] THEN object[column] ELSE stored[column]]

\* db.commit() of either handler: the UPDATE of the build and the INSERT of
\* the history row, then the response.
commit(w) ==
    /\ sessions[w].pc = "read"
    /\ builds' = [builds EXCEPT ![sessions[w].build_id] =
                     Flush(@, sessions[w].loaded, sessions[w].object)]
    /\ build_states' = Append(build_states, sessions[w].row)
    /\ sessions' = [sessions EXCEPT ![w].pc = "done"]
    /\ res' = NamedResponse(sessions[w].op, 200, "", sessions[w].build_id, sessions[w].arg)
    /\ UNCHANGED <<state_codes, build_artifacts, build_variables, resumable_states,
                   resume_requests>>

\* ------------------------------------------------------------------ artifacts
ArtifactIds == 1..Len(build_artifacts)

\* The build's rows with deleted_at IS NULL.
LiveArtifacts(build_id) ==
    {a \in ArtifactIds : /\ build_artifacts[a].build_id = build_id
                         /\ ~build_artifacts[a].deleted}

\* create_artifact: "Check if artifact name already exists for this build".
ExistingArtifact_anyRow(build_id, artifact_name) ==
    {a \in ArtifactIds : /\ build_artifacts[a].build_id = build_id
                         /\ build_artifacts[a].artifact_name = artifact_name}

ExistingArtifact(build_id, artifact_name) ==
    {a \in LiveArtifacts(build_id) : build_artifacts[a].artifact_name = artifact_name}

\* POST /builds/{build_id}/artifacts
create_artifact(build_id, artifact_name, state_code, is_resumable) ==
    /\ IF build_id \notin BuildIds
       THEN /\ res' = NamedResponse("create_artifact", 404, "build not found",
                                     build_id, artifact_name)
            /\ UNCHANGED build_artifacts
       ELSE IF ExistingArtifact(build_id, artifact_name) # {}
       THEN /\ res' = NamedResponse("create_artifact", 400, "artifact exists",
                                     build_id, artifact_name)
            /\ UNCHANGED build_artifacts
       ELSE /\ build_artifacts' = Append(build_artifacts,
                  [build_id |-> build_id, artifact_name |-> artifact_name,
                   state_code |-> state_code, is_resumable |-> is_resumable,
                   deleted |-> FALSE])
            /\ res' = NamedResponse("create_artifact", 201, "", build_id, artifact_name)
    /\ UNCHANGED <<state_codes, builds, build_states, build_variables, resumable_states, resume_requests, sessions>>

\* create_artifact in two steps, for registrations served at once: the
\* checks of the request in the worker's own session, then db.add and
\* db.commit of the row. The session keeps the row to insert and the size
\* of the table when it ran the checks (read_at).
create_artifact_check(w, build_id, artifact_name, state_code, is_resumable) ==
    /\ sessions[w].pc \in {"idle", "done"}
    /\ IF build_id \notin BuildIds
       THEN /\ res' = NamedResponse("create_artifact", 404, "build not found",
                                     build_id, artifact_name)
            /\ sessions' = [sessions EXCEPT ![w].calls = @ + 1]
       ELSE IF ExistingArtifact(build_id, artifact_name) # {}
       THEN /\ res' = NamedResponse("create_artifact", 400, "artifact exists",
                                     build_id, artifact_name)
            /\ sessions' = [sessions EXCEPT ![w].calls = @ + 1]
       ELSE /\ sessions' = [sessions EXCEPT ![w] =
                  [pc |-> "checked", op |-> "create_artifact", build_id |-> build_id,
                   arg |-> artifact_name, read_at |-> Len(build_artifacts),
                   calls |-> @.calls + 1, loaded |-> <<>>, object |-> <<>>,
                   row |-> [build_id |-> build_id, artifact_name |-> artifact_name,
                            state_code |-> state_code, is_resumable |-> is_resumable,
                            deleted |-> FALSE]]]
            /\ UNCHANGED res
    /\ UNCHANGED <<state_codes, builds, build_states, build_artifacts, build_variables,
                   resumable_states, resume_requests>>

\* db.add(db_artifact); db.commit(): no constraint of the table looks at the
\* name, the INSERT goes through.
create_artifact_insert(w) ==
    /\ sessions[w].pc = "checked"
    /\ build_artifacts' = Append(build_artifacts, sessions[w].row)
    /\ sessions' = [sessions EXCEPT ![w].pc = "done"]
    /\ res' = NamedResponse("create_artifact", 201, "", sessions[w].build_id,
                            sessions[w].arg)
    /\ UNCHANGED <<state_codes, builds, build_states, build_variables, resumable_states,
                   resume_requests>>

\* The row get/update/delete address: id, build and deleted_at IS NULL.
AddressedArtifact_deletedToo(build_id, artifact_id) ==
    /\ artifact_id \in ArtifactIds
    /\ build_artifacts[artifact_id].build_id = build_id

AddressedArtifact(build_id, artifact_id) ==
    /\ artifact_id \in ArtifactIds
    /\ build_artifacts[artifact_id].build_id = build_id
    /\ ~build_artifacts[artifact_id].deleted

\* PATCH /builds/{build_id}/artifacts/{artifact_id}
update_artifact(build_id, artifact_id, artifact_name, is_resumable) ==
    /\ IF ~AddressedArtifact(build_id, artifact_id)
       THEN /\ res' = Response("update_artifact", 404, "artifact not found", artifact_id)
            /\ UNCHANGED build_artifacts
       ELSE /\ build_artifacts' = [build_artifacts EXCEPT ![artifact_id] =
                  [@ EXCEPT !.artifact_name = Given(artifact_name, @),
                            !.is_resumable = Given(is_resumable, @)]]
            /\ res' = Response("update_artifact", 200, "", artifact_id)
    /\ UNCHANGED <<state_codes, builds, build_states, build_variables, resumable_states, resume_requests, sessions>>

\* DELETE /builds/{build_id}/artifacts/{artifact_id}
delete_artifact(build_id, artifact_id) ==
    /\ IF ~AddressedArtifact(build_id, artifact_id)
       THEN /\ res' = Response("delete_artifact", 404, "artifact not found", artifact_id)
            /\ UNCHANGED build_artifacts
       ELSE /\ build_artifacts' = [build_artifacts EXCEPT ![artifact_id].deleted = TRUE]
            /\ res' = Response("delete_artifact", 204, "", artifact_id)
    /\ UNCHANGED <<state_codes, builds, build_states, build_variables, resumable_states, resume_requests, sessions>>

\* order_by(state_code, created_at): the rows by state_code ascending and,
\* among equal state_code, in creation order (the position in the table).
OrderedByStateCodeCreatedAt(rows) ==
    CHOOSE order \in [1..Cardinality(rows) -> rows] :
        \A i, j \in 1..Cardinality(rows) :
           i < j => \/ build_artifacts[order[i]].state_code
                          < build_artifacts[order[j]].state_code
                    \/ /\ build_artifacts[order[i]].state_code
                          = build_artifacts[order[j]].state_code
                       /\ order[i] < order[j]

\* The query of list_artifacts with its optional state_code and is_resumable
\* filters.
ListedArtifacts(build_id, state_code, is_resumable) ==
    {a \in LiveArtifacts(build_id) :
        /\ state_code = <<>> \/ build_artifacts[a].state_code = state_code[1]
        /\ is_resumable = <<>> \/ build_artifacts[a].is_resumable = is_resumable[1]}

\* GET /builds/{build_id}/artifacts
list_artifacts(build_id, state_code, is_resumable) ==
    /\ IF build_id \notin BuildIds
       THEN res' = Response("list_artifacts", 404, "build not found", build_id)
       ELSE res' = [op |-> "list_artifacts", code |-> 200, detail |-> "",
                    target |-> build_id, arg |-> "",
                    body |-> OrderedByStateCodeCreatedAt(
                                ListedArtifacts(build_id, state_code, is_resumable))]
    /\ UNCHANGED <<state_codes, builds, build_states, build_artifacts, build_variables,
                   resumable_states, resume_requests, sessions>>

\* GET /builds/{build_id}/artifacts/{artifact_id}
get_artifact(build_id, artifact_id) ==
    /\ IF ~AddressedArtifact(build_id, artifact_id)
       THEN res' = Response("get_artifact", 404, "artifact not found", artifact_id)
       ELSE res' = [op |-> "get_artifact", code |-> 200, detail |-> "",
                    target |-> artifact_id, arg |-> "",
                    body |-> build_artifacts[artifact_id]]
    /\ UNCHANGED <<state_codes, builds, build_states, build_artifacts, build_variables,
                   resumable_states, resume_requests, sessions>>

\* ------------------------------------------------------------------ variables
VariableIds == 1..Len(build_variables)

RemoveAt(seq, i) == SubSeq(seq, 1, i - 1) \o SubSeq(seq, i + 1, Len(seq))

Max(S) == CHOOSE x \in S : \A y \in S : y <= x

\* set_variable: "Check if variable already exists".
ExistingVariable_none(build_id, variable_key) == {}

ExistingVariable(build_id, variable_key) ==
    {v \in VariableIds : /\ build_variables[v].build_id = build_id
                         /\ build_variables[v].variable_key = variable_key}

\* POST /builds/{build_id}/variables
set_variable(build_id, variable_key, variable_value, is_sensitive, is_required_for_resume) ==
    /\ IF build_id \notin BuildIds
       THEN /\ res' = NamedResponse("set_variable", 404, "build not found",
                                     build_id, variable_key)
            /\ UNCHANGED build_variables
       ELSE /\ IF ExistingVariable(build_id, variable_key) # {}
               THEN \E db_variable \in ExistingVariable(build_id, variable_key) :
                    build_variables' = [build_variables EXCEPT ![db_variable] =
                       [@ EXCEPT !.variable_value = variable_value,
                                 !.is_sensitive = is_sensitive,
                                 !.is_required_for_resume = is_required_for_resume]]
               ELSE build_variables' = Append(build_variables,
                       [build_id |-> build_id, variable_key |-> variable_key,
                        variable_value |-> variable_value, is_sensitive |-> is_sensitive,
                        is_required_for_resume |-> is_required_for_resume])
            /\ res' = NamedResponse("set_variable", 201, "", build_id, variable_key)
    /\ UNCHANGED <<state_codes, builds, build_states, build_artifacts, resumable_states, resume_requests, sessions>>

\* The row update/delete address by build and key.
AddressedVariable(build_id, variable_key) ==
    {v \in VariableIds : /\ build_variables[v].build_id = build_id
                         /\ build_variables[v].variable_key = variable_key}

\* PATCH /builds/{build_id}/variables/{variable_key}
update_variable(build_id, variable_key, variable_value, is_sensitive, is_required_for_resume) ==
    /\ IF AddressedVariable(build_id, variable_key) = {}
       THEN /\ res' = NamedResponse("update_variable", 404, "variable not found",
                                     build_id, variable_key)
            /\ UNCHANGED build_variables
       ELSE \E db_variable \in AddressedVariable(build_id, variable_key) :
            /\ build_variables' = [build_variables EXCEPT ![db_variable] =
                  [@ EXCEPT !.variable_value = Given(variable_value, @),
                            !.is_sensitive = Given(is_sensitive, @),
                            !.is_required_for_resume = Given(is_required_for_resume, @)]]
            /\ res' = NamedResponse("update_variable", 200, "", build_id, variable_key)
    /\ UNCHANGED <<state_codes, builds, build_states, build_artifacts, resumable_states, resume_requests, sessions>>

\* DELETE /builds/{build_id}/variables/{variable_key}
delete_variable(build_id, variable_key) ==
    /\ IF AddressedVariable(build_id, variable_key) = {}
       THEN /\ res' = NamedResponse("delete_variable", 404, "variable not found",
                                     build_id, variable_key)
            /\ UNCHANGED build_variables
       ELSE \E db_variable \in AddressedVariable(build_id, variable_key) :
            /\ build_variables' = RemoveAt(build_variables, db_variable)
            /\ res' = NamedResponse("delete_variable", 204, "", build_id, variable_key)
    /\ UNCHANGED <<state_codes, builds, build_states, build_artifacts, resumable_states, resume_requests, sessions>>

\* GET /builds/{build_id}/variables: the rows list() returns.
list_variables(build_id) ==
    {v \in VariableIds : build_variables[v].build_id = build_id}

\* "Build dictionary, masking sensitive values": the loop over the selected
\* rows of a variables table, a later row overwriting an earlier one of the
\* same key.
MaskedValue_raw(row) == row.variable_value

MaskedValue(row) == IF row.is_sensitive THEN Mask ELSE row.variable_value

Dict(table, selected) ==
    [k \in {table[v].variable_key : v \in selected} |->
        MaskedValue(table[Max({v \in selected : table[v].variable_key = k})])]

\* The query of get_variables_dict with its optional required_for_resume filter.
SelectedVariables(table, build_id, required_for_resume) ==
    {v \in 1..Len(table) :
        /\ table[v].build_id = build_id
        /\ \/ required_for_resume = <<>>
           \/ table[v].is_required_for_resume = required_for_resume[1]}

VariablesDict(table, build_id, required_for_resume) ==
    Dict(table, SelectedVariables(table, build_id, required_for_resume))

\* GET /builds/{build_id}/variables/dict
get_variables_dict(build_id, required_for_resume) ==
    /\ IF build_id \notin BuildIds
       THEN res' = Response("get_variables_dict", 404, "build not found", build_id)
       ELSE res' = [op |-> "get_variables_dict", code |-> 200, detail |-> "",
                    target |-> build_id, arg |-> "",
                    filter |-> required_for_resume,
                    body |-> VariablesDict(build_variables, build_id, required_for_resume)]
    /\ UNCHANGED <<state_codes, builds, build_states, build_artifacts, build_variables,
                   resumable_states, resume_requests, sessions>>

\* ------------------------------------------------------------------ resume context
\* The history rows of a build with a status in statuses; created_at grows
\* with the position in the table.
HistoryRows(build_id, statuses) ==
    {h \in 1..Len(build_states) : /\ build_states[h].build_id = build_id
                                  /\ build_states[h].status \in statuses}

Min(S) == CHOOSE x \in S : \A y \in S : x <= y

\* order_by(desc(created_at)).first(): the latest such row, <<>> when none.
LatestRow_oldest(build_id, statuses) ==
    IF HistoryRows(build_id, statuses) = {} THEN <<>>
    ELSE <<build_states[Min(HistoryRows(build_id, statuses))]>>

LatestRow(build_id, statuses) ==
    IF HistoryRows(build_id, statuses) = {} THEN <<>>
    ELSE <<build_states[Max(HistoryRows(build_id, statuses))]>>

\* "last_successful_state.state if last_successful_state else 0"
LastStateCode(build_id) ==
    LET last_successful_state == LatestRow(build_id, {"completed"})
    IN  IF last_successful_state # <<>> THEN <<last_successful_state[1].state>> ELSE <<0>>

\* "failed_state.state if failed_state else None"
FailedStateCode(build_id) ==
    LET failed_state == LatestRow(build_id, {"failed", "error"})
    IN  IF failed_state # <<>> THEN <<failed_state[1].state>> ELSE <<>>

\* Python truth of an Optional[int]: None and 0 are false.
Truthy(value) == value # <<>> /\ value[1] # 0

\* "failed_state_code if failed_state_code else current_state"
ResumeFromState(failed_state_code, current_state) ==
    IF Truthy(failed_state_code) THEN failed_state_code[1] ELSE current_state

\* The build's resumable, non-deleted artifacts.
ResumableArtifacts(build_id) ==
    {a \in LiveArtifacts(build_id) : build_artifacts[a].is_resumable}

\* order_by(state_code): every listing of the rows by state_code ascending;
\* the query leaves the order of rows of equal state_code to the database.
OrderedByStateCode(rows) ==
    {order \in [1..Cardinality(rows) -> rows] :
        /\ \A i, j \in 1..Cardinality(rows) : i # j => order[i] # order[j]
        /\ \A i, j \in 1..Cardinality(rows) :
              i < j => build_artifacts[order[i]].state_code
                          <= build_artifacts[order[j]].state_code}

\* The masking loop of get_resume_context over all variables of the build.
ContextVariables(table, build_id) ==
    LET variables_list == {v \in 1..Len(table) : table[v].build_id = build_id}
    IN  [k \in {table[v].variable_key : v \in variables_list} |->
           LET var == table[Max({v \in variables_list : table[v].variable_key = k})]
           IN  IF var.is_sensitive THEN Mask ELSE var.variable_value]

\* The ResumableState row of the build's project at its current state.
ResumableStateConfig(build_id) ==
    LET rows == {r \in 1..Len(resumable_states) :
                    /\ resumable_states[r].project_id = builds[build_id].project_id
                    /\ resumable_states[r].state_code = builds[build_id].current_state_code_id}
    IN  IF rows = {} THEN {<<>>} ELSE {<<r>> : r \in rows}

\* The ResumeContext assembled for an existing build, given the listing of
\* its artifacts and the configuration row the queries returned.
ResumeContext(build_id, artifacts, resumable_state_config) ==
    LET current_state == builds[build_id].current_state_code_id
        failed_state_code == FailedStateCode(build_id)
    IN  [build_id |-> build_id,
         current_state |-> current_state,
         last_successful_state |-> LastStateCode(build_id),
         failed_state |-> failed_state_code,
         resume_from_state |-> ResumeFromState(failed_state_code, current_state),
         artifacts |-> artifacts,
         variables |-> ContextVariables(build_variables, build_id),
         resumable_state_config |-> resumable_state_config]

\* GET /builds/{build_id}/resume-context
get_resume_context(build_id) ==
    /\ IF build_id \notin BuildIds
       THEN res' = Response("get_resume_context", 404, "build not found", build_id)
       ELSE \E artifacts \in OrderedByStateCode(ResumableArtifacts(build_id)),
               config \in ResumableStateConfig(build_id) :
            res' = [op |-> "get_resume_context", code |-> 200, detail |-> "",
                    target |-> build_id, arg |-> "",
                    body |-> ResumeContext(build_id, artifacts, config)]
    /\ UNCHANGED <<state_codes, builds, build_states, build_artifacts, build_variables,
                   resumable_states, resume_requests, sessions>>

\* get_resume_context query by query, for a call that runs while other
\* requests commit: no isolation level is configured, so each query of the
\* session reads what is committed when it runs. Session w keeps the Build
\* it loaded (loaded), the point of the history at which it loaded it
\* (read_at) and the row its last_successful_state query returned (row).
\* "Validate build exists"
get_resume_context_build(w, build_id) ==
    /\ sessions[w].pc \in {"idle", "done"}
    /\ IF build_id \notin BuildIds
       THEN /\ res' = Response("get_resume_context", 404, "build not found", build_id)
            /\ UNCHANGED sessions
       ELSE /\ sessions' = [sessions EXCEPT ![w] =
                  [pc |-> "build", op |-> "get_resume_context", build_id |-> build_id,
                   arg |-> "", read_at |-> Len(build_states), calls |-> @.calls,
                   loaded |-> builds[build_id], object |-> <<>>, row |-> <<>>]]
            /\ UNCHANGED res
    /\ UNCHANGED <<state_codes, builds, build_states, build_artifacts, build_variables,
                   resumable_states, resume_requests>>

\* "Get last successful state from build_states"
get_resume_context_completed(w) ==
    /\ sessions[w].pc = "build"
    /\ sessions' = [sessions EXCEPT ![w].pc = "completed",
                                    ![w].row = LatestRow(sessions[w].build_id, {"completed"})]
    /\ UNCHANGED <<state_codes, builds, build_states, build_artifacts, build_variables,
                   resumable_states, resume_requests, res>>

\* The ResumableState query, on the project and the state of the loaded Build.
LoadedStateConfig(db_build) ==
    LET rows == {r \in 1..Len(resumable_states) :
                    /\ resumable_states[r].project_id = db_build.project_id
                    /\ resumable_states[r].state_code = db_build.current_state_code_id}
    IN  IF rows = {} THEN {<<>>} ELSE {<<r>> : r \in rows}

\* "Determine resume_from_state" and the response. (The artifact, variable
\* and configuration queries run before the failed_state query; they are
\* taken here with it.)
get_resume_context_failed(w) ==
    /\ sessions[w].pc = "completed"
    /\ LET build_id == sessions[w].build_id
           current_state == sessions[w].loaded.current_state_code_id
           last_successful_state == sessions[w].row
           failed_state_code == FailedStateCode(build_id)
       IN  \E artifacts \in OrderedByStateCode(ResumableArtifacts(build_id)),
              config \in LoadedStateConfig(sessions[w].loaded) :
              res' = [op |-> "get_resume_context", code |-> 200, detail |-> "",
                      target |-> build_id, arg |-> "",
                      body |-> [build_id |-> build_id,
                                current_state |-> current_state,
                                last_successful_state |->
                                   IF last_successful_state # <<>>
                                   THEN <<last_successful_state[1].state>> ELSE <<0>>,
                                failed_state |-> failed_state_code,
                                resume_from_state |->
                                   ResumeFromState(failed_state_code, current_state),
                                artifacts |-> artifacts,
                                variables |-> ContextVariables(build_variables, build_id),
                                resumable_state_config |-> config]]
    /\ sessions' = [sessions EXCEPT ![w] = [IdleSession EXCEPT !.calls = sessions[w].calls]]
    /\ UNCHANGED <<state_codes, builds, build_states, build_artifacts, build_variables,
                   resumable_states, resume_requests>>

\* ------------------------------------------------------------------ resumable states
\* create_resumable_state: "Check if already exists".
ExistingResumableState(project_id, state_code) ==
    {r \in 1..Len(resumable_states) : /\ resumable_states[r].project_id = project_id
                                       /\ resumable_states[r].state_code = state_code}

\* POST /projects/{project_id}/resumable-states
create_resumable_state(project_id, state_code, is_resumable) ==
    /\ IF project_id \notin Projects
       THEN /\ res' = Response("create_resumable_state", 404, "project not found", project_id)
            /\ UNCHANGED resumable_states
       ELSE IF ExistingResumableState(project_id, state_code) # {}
       THEN /\ res' = Response("create_resumable_state", 400, "already configured",
                                project_id)
            /\ UNCHANGED resumable_states
       ELSE /\ resumable_states' = Append(resumable_states,
                  [project_id |-> project_id, state_code |-> state_code,
                   is_resumable |-> is_resumable])
            /\ res' = Response("create_resumable_state", 201, "", project_id)
    /\ UNCHANGED <<state_codes, builds, build_states, build_artifacts, build_variables,
                   resume_requests, sessions>>

\* ------------------------------------------------------------------ resume requests
ResumeRequestIds == 1..Len(resume_requests)

\* The user the request is authenticated as (current_user.id).
CurrentUser == "user"

\* create_resume_request: the validation of the range, <<201, "">> when it
\* passes.
ResumeRangeError_anyRange(build_id, resume_from_state, resume_to_state) ==
    IF build_id \notin BuildIds THEN <<404, "build not found">>
    ELSE IF resume_from_state < 0 THEN <<400, "resume_from_state must be >= 0">>
    ELSE <<201, "">>

ResumeRangeError(build_id, resume_from_state, resume_to_state) ==
    IF build_id \notin BuildIds THEN <<404, "build not found">>
    ELSE IF resume_from_state < 0 THEN <<400, "resume_from_state must be >= 0">>
    ELSE IF resume_to_state # <<>> /\ resume_to_state[1] <= resume_from_state
         THEN <<400, "resume_to_state must be greater than resume_from_state">>
    ELSE <<201, "">>

\* POST /builds/{build_id}/resume
create_resume_request(build_id, resume_from_state, resume_to_state, resume_reason, requested_by, request_source) ==
    LET err == ResumeRangeError(build_id, resume_from_state, resume_to_state)
    IN  /\ IF err[1] # 201
           THEN /\ res' = Response("create_resume_request", err[1], err[2], build_id)
                /\ UNCHANGED resume_requests
           ELSE /\ resume_requests' = Append(resume_requests,
                      [build_id |-> build_id,
                       resume_from_state |-> resume_from_state,
                       resume_to_state |-> resume_to_state,
                       resume_reason |-> resume_reason,
                       requested_by |-> IF requested_by # <<>> THEN requested_by[1]
                                        ELSE CurrentUser,
                       request_source |-> request_source,
                       orchestration_status |-> <<"pending">>,
                       orchestration_job_id |-> <<>>])
                /\ res' = Response("create_resume_request", 201, "", build_id)
        /\ UNCHANGED <<state_codes, builds, build_states, build_artifacts, build_variables,
                       resumable_states, sessions>>

\* A nullable column keeps the optional value it is given.
GivenNullable(field, old) == IF field = <<>> THEN old ELSE field

\* "Update only provided fields": the fields of ResumeRequestUpdate. The job
\* url, the two timestamps and the error message go through the same loop as
\* the job id.
UpdatedRequest_rewritesRange(request, orchestration_status, orchestration_job_id) ==
    [request EXCEPT !.orchestration_status = GivenNullable(orchestration_status, @),
                    !.orchestration_job_id = GivenNullable(orchestration_job_id, @),
                    !.resume_from_state = @ + 1]

UpdatedRequest(request, orchestration_status, orchestration_job_id) ==
    [request EXCEPT !.orchestration_status = GivenNullable(orchestration_status, @),
                    !.orchestration_job_id = GivenNullable(orchestration_job_id, @)]

\* PATCH /resume-requests/{request_id}
update_resume_request(request_id, orchestration_status, orchestration_job_id) ==
    /\ IF request_id \notin ResumeRequestIds
       THEN /\ res' = Response("update_resume_request", 404, "request not found", request_id)
            /\ UNCHANGED resume_requests
       ELSE /\ resume_requests' = [resume_requests EXCEPT ![request_id] =
                  UpdatedRequest(@, orchestration_status, orchestration_job_id)]
            /\ res' = Response("update_resume_request", 200, "", request_id)
    /\ UNCHANGED <<state_codes, builds, build_states, build_artifacts, build_variables,
                   resumable_states, sessions>>

\* ------------------------------------------------------------------ specification
Init ==
    /\ state_codes = <<>>
    /\ builds = <<>>
    /\ build_states = <<>>
    /\ build_artifacts = <<>>
    /\ build_variables = <<>>
    /\ resumable_states = <<>>
    /\ resume_requests = <<>>
    /\ sessions = NoSessions
    /\ res = NamedResponse("none", 0, "", 0, "")

\* The tables stay within the bounds: a request that would grow one past
\* its bound is not drawn.
WithinBounds ==
    /\ Len(state_codes') <= MaxStateCodes
    /\ Len(builds') <= MaxBuilds
    /\ Len(build_states') <= MaxHistory

Next ==
    \/ \E p \in Projects, n \in Names, fl \in Flags :
          create_state_code(p, n, fl[1], fl[2], fl[3]) /\ WithinBounds
    \/ \E p \in Projects, id \in 0..(MaxStateCodes - 1) : delete_state_code(p, id)
    \/ \E p \in Projects : create_build(p) /\ WithinBounds
    \/ \E b \in 1..(MaxBuilds + 1), n \in Names : update_build_state(b, n) /\ WithinBounds
    \/ \E b \in 1..(MaxBuilds + 1) : record_build_failure(b) /\ WithinBounds

Spec == Init /\ [][Next]_vars

\* ------------------------------------------------------------------ other specifications
NoResponse == NamedResponse("none", 0, "", 0, "")

\* SpecContext: get_resume_context as a function of the build row and the
\* history, over every history of at most MaxContextHistory rows.
HistoryRowValues == [build_id : {1}, state : 0..MaxStateId, status : HistoryStatuses]

InitContext ==
    /\ state_codes = <<>>
    /\ \E c \in 0..MaxStateId :
          builds = <<[project_id |-> 1, current_state_code_id |-> c,
                      status |-> "running", ended |-> FALSE]>>
    /\ build_states \in UNION {[1..n -> HistoryRowValues] : n \in 0..MaxContextHistory}
    /\ build_artifacts = <<>>
    /\ build_variables = <<>>
    /\ resumable_states = <<>>
    /\ resume_requests = <<>>
    /\ sessions = NoSessions
    /\ res = NoResponse

NextContext == \E b \in 1..2 : get_resume_context(b)

SpecContext == InitContext /\ [][NextContext]_vars

\* SpecScenario: one project, one build, its transitions, one artifact, a
\* recorded failure and the resume context read back.
ScenarioBounds ==
    /\ Len(state_codes') <= MaxStateCodes
    /\ Len(builds') <= MaxBuilds
    /\ Len(build_states') <= ScenarioHistory
    /\ Len(build_artifacts') <= ScenarioArtifacts

NextScenario ==
    \/ \E n \in Names, fl \in Flags :
          create_state_code(1, n, fl[1], fl[2], fl[3]) /\ ScenarioBounds
    \/ create_build(1) /\ ScenarioBounds
    \/ \E n \in Names : update_build_state(1, n) /\ ScenarioBounds
    \/ \E n \in Names, c \in ArtifactStateCodes, r \in BOOLEAN :
          create_artifact(1, n, c, r) /\ ScenarioBounds
    \/ record_build_failure(1) /\ ScenarioBounds
    \/ get_resume_context(1)

SpecScenario == Init /\ [][NextScenario]_vars

\* SpecArtifacts and SpecVariables start from a database that holds one
\* initial state code and two running builds created from it.
InitTwoBuilds ==
    /\ state_codes = <<[project_id |-> 1, name |-> "a", is_initial |-> TRUE,
                         is_final |-> FALSE, is_error |-> FALSE, ended |-> FALSE]>>
    /\ builds = <<[project_id |-> 1, current_state_code_id |-> 0,
                    status |-> "running", ended |-> FALSE],
                   [project_id |-> 1, current_state_code_id |-> 0,
                    status |-> "running", ended |-> FALSE]>>
    /\ build_states = <<[build_id |-> 1, state |-> 0, status |-> "running"],
                         [build_id |-> 2, state |-> 0, status |-> "running"]>>
    /\ build_artifacts = <<>>
    /\ build_variables = <<>>
    /\ resumable_states = <<>>
    /\ resume_requests = <<>>
    /\ sessions = NoSessions
    /\ res = NoResponse

\* The tracker's checks never read state_code: SpecArtifacts registers every
\* artifact at one state code.
TrackerStateCode == 5

NextArtifacts ==
    \/ \E b \in 1..3, n \in Names, r \in BOOLEAN :
          create_artifact(b, n, TrackerStateCode, r) /\ Len(build_artifacts') <= MaxArtifacts
    \/ \E b \in 1..3, a \in 1..(MaxArtifacts + 1), n \in Opt(Names), r \in Opt(BOOLEAN) :
          update_artifact(b, a, n, r)
    \/ \E b \in 1..3, a \in 1..(MaxArtifacts + 1) : delete_artifact(b, a)

SpecArtifacts == InitTwoBuilds /\ [][NextArtifacts]_vars

\* The (build, key) pairs the requests of SpecVariables name: both keys on
\* build 1, one of them on build 2 as well, and one on a build that does not
\* exist.
VariableTargets == {<<1, "k1">>, <<1, "k2">>, <<2, "k1">>, <<3, "k1">>}

NextVariables ==
    \/ \E t \in VariableTargets, v \in Values, s \in BOOLEAN, r \in BOOLEAN :
          set_variable(t[1], t[2], v, s, r) /\ Len(build_variables') <= MaxVariables
    \/ \E t \in VariableTargets, v \in Opt(Values), s \in Opt(BOOLEAN), r \in Opt(BOOLEAN) :
          update_variable(t[1], t[2], v, s, r)
    \/ \E t \in VariableTargets : delete_variable(t[1], t[2])
    \/ \E b \in 1..3, f \in Opt(BOOLEAN) : get_variables_dict(b, f)
    \/ \E b \in 1..3 : get_resume_context(b)

SpecVariables == InitTwoBuilds /\ [][NextVariables]_vars

\* SpecReads: the read paths of the artifact tracker. Build 1 registers
\* artifacts of every name and flag at state code 5 and a resumable one at
\* state code 10, build 2 one artifact that shares a name and a state code
\* with them.
ArtifactRequests ==
    {<<1, n, 5, r>> : n \in Names, r \in BOOLEAN}
       \cup {<<1, "a", 10, TRUE>>, <<2, "a", 5, TRUE>>}

\* The state_code and is_resumable filters of the list requests: none, one
\* or the other.
ListFilters == {<<<<>>, <<>>>>, <<<<5>>, <<>>>>, <<<<>>, <<TRUE>>>>}

NextReads ==
    \/ \E q \in ArtifactRequests :
          create_artifact(q[1], q[2], q[3], q[4]) /\ Len(build_artifacts') <= MaxArtifacts
    \/ \E b \in 1..2, a \in 1..(MaxArtifacts + 1), n \in Opt(Names) :
          update_artifact(b, a, n, <<>>)
    \/ \E b \in 1..2, a \in 1..(MaxArtifacts + 1) : delete_artifact(b, a)
    \/ \E b \in {1, 3}, f \in ListFilters : list_artifacts(b, f[1], f[2])
    \/ \E b \in 1..2, a \in 1..(MaxArtifacts + 1) : get_artifact(b, a)
    \/ \E b \in 1..3 : get_resume_context(b)
    \/ \E p \in 1..2 : create_resumable_state(p, 0, TRUE)

SpecReads == InitTwoBuilds /\ [][NextReads]_vars

\* SpecRequests: resume requests of build 1 and of a build that does not
\* exist, with ranges on both sides of every check.
ResumeFromStates == -1..1
ResumeToStates == 0..1

\* The reason, requester and source a request comes with, as
\* <<resume_reason, requested_by, request_source>>.
RequestDetails == {<<<<>>, <<>>, "api">>, <<<<"retry">>, <<>>, "api">>,
                   <<<<"retry">>, <<"ci">>, "cli">>}

NextRequests ==
    \/ \E b \in {1, 3}, from \in ResumeFromStates, to \in Opt(ResumeToStates),
          d \in RequestDetails :
          /\ create_resume_request(b, from, to, d[1], d[2], d[3])
          /\ Len(resume_requests') <= MaxRequests
    \/ \E q \in 1..(MaxRequests + 1), st \in Opt({"running"}), job \in Opt({"job-1"}) :
          update_resume_request(q, st, job)

SpecRequests == InitTwoBuilds /\ [][NextRequests]_vars

\* SpecRegistry: the state-code registry of one project.
\* The updates a PUT carries, as <<name, is_initial, is_final, is_error>>:
\* those that set at most one field.
StateCodeUpdates ==
    {u \in Opt(Names) \X Opt(BOOLEAN) \X Opt(BOOLEAN) \X Opt(BOOLEAN) :
        Cardinality({f \in 1..4 : u[f] # <<>>}) <= 1}

NextRegistry ==
    \/ \E p \in Projects, n \in Names, fl \in Flags :
          create_state_code(p, n, fl[1], fl[2], fl[3]) /\ Len(state_codes') <= MaxStateCodes
    \/ \E p \in Projects, id \in 0..MaxStateCodes, u \in StateCodeUpdates :
          update_state_code(p, id, u[1], u[2], u[3], u[4])
    \/ \E p \in Projects, id \in 0..MaxStateCodes : delete_state_code(p, id)

SpecRegistry == Init /\ [][NextRegistry]_vars

\* SpecRace: one running build of a project with a plain, a final and an
\* error state code besides its initial one, and two workers that each
\* serve transition and failure requests on it.
RaceNames == {"a", "b", "c", "d"}

InitRace ==
    /\ state_codes = <<[project_id |-> 1, name |-> "a", is_initial |-> TRUE,
                         is_final |-> FALSE, is_error |-> FALSE, ended |-> FALSE],
                        [project_id |-> 1, name |-> "b", is_initial |-> FALSE,
                         is_final |-> FALSE, is_error |-> FALSE, ended |-> FALSE],
                        [project_id |-> 1, name |-> "c", is_initial |-> FALSE,
                         is_final |-> TRUE, is_error |-> FALSE, ended |-> FALSE],
                        [project_id |-> 1, name |-> "d", is_initial |-> FALSE,
                         is_final |-> FALSE, is_error |-> TRUE, ended |-> FALSE]>>
    /\ builds = <<[project_id |-> 1, current_state_code_id |-> 0,
                    status |-> "running", ended |-> FALSE]>>
    /\ build_states = <<[build_id |-> 1, state |-> 0, status |-> "running"]>>
    /\ build_artifacts = <<>>
    /\ build_variables = <<>>
    /\ resumable_states = <<>>
    /\ resume_requests = <<>>
    /\ sessions = NoSessions
    /\ res = NoResponse

NextRace ==
    \/ \E w \in Workers, n \in RaceNames :
          sessions[w].calls < MaxCalls /\ update_build_state_read(w, 1, n)
    \/ \E w \in Workers :
          sessions[w].calls < MaxCalls /\ record_build_failure_read(w, 1)
    \/ \E w \in Workers : commit(w)

SpecRace == InitRace /\ [][NextRace]_vars

\* SpecProjects: two projects with their own state codes and the registry
\* changing under the builds. Project 1 starts with the state codes a
\* (initial) and b and one running build at a, project 2 with the state
\* code c (initial); state codes are renamed to c and deactivated, and no
\* state code is ever named z.
ProjectIds == {1, 2}
TransitionNames == {"a", "b", "c", "z"}

InitProjects ==
    /\ state_codes = <<[project_id |-> 1, name |-> "a", is_initial |-> TRUE,
                         is_final |-> FALSE, is_error |-> FALSE, ended |-> FALSE],
                        [project_id |-> 1, name |-> "b", is_initial |-> FALSE,
                         is_final |-> FALSE, is_error |-> FALSE, ended |-> FALSE],
                        [project_id |-> 2, name |-> "c", is_initial |-> TRUE,
                         is_final |-> FALSE, is_error |-> FALSE, ended |-> FALSE]>>
    /\ builds = <<[project_id |-> 1, current_state_code_id |-> 0,
                    status |-> "running", ended |-> FALSE]>>
    /\ build_states = <<[build_id |-> 1, state |-> 0, status |-> "running"]>>
    /\ build_artifacts = <<>>
    /\ build_variables = <<>>
    /\ resumable_states = <<>>
    /\ resume_requests = <<>>
    /\ sessions = NoSessions
    /\ res = NoResponse

ProjectBounds ==
    /\ Len(builds') <= MaxBuilds
    /\ Len(build_states') <= ScenarioHistory

NextProjects ==
    \/ \E p \in ProjectIds, id \in 0..2 :
          update_state_code(p, id, <<"c">>, <<>>, <<>>, <<>>)
    \/ \E p \in ProjectIds, id \in 0..2 : delete_state_code(p, id)
    \/ \E p \in ProjectIds : create_build(p) /\ ProjectBounds
    \/ \E b \in 1..(MaxBuilds + 1), n \in TransitionNames :
          update_build_state(b, n) /\ ProjectBounds
    \/ \E b \in 1..(MaxBuilds + 1) : record_build_failure(b) /\ ProjectBounds

SpecProjects == InitProjects /\ [][NextProjects]_vars

\* SpecReader: the two writers of SpecRace and resume-context reads served
\* in between, by a worker that has no write in flight.
Resting(w) == sessions[w].pc \in {"idle", "done"}

NextReader ==
    \/ \E w \in Workers, n \in RaceNames :
          Resting(w) /\ sessions[w].calls < MaxCalls /\ update_build_state_read(w, 1, n)
    \/ \E w \in Workers :
          Resting(w) /\ sessions[w].calls < MaxCalls /\ record_build_failure_read(w, 1)
    \/ \E w \in Workers : commit(w)
    \/ \E w \in Workers, b \in 1..2 : get_resume_context_build(w, b)
    \/ \E w \in Workers : get_resume_context_completed(w)
    \/ \E w \in Workers : get_resume_context_failed(w)

SpecReader == InitRace /\ [][NextReader]_vars

\* SpecRegister: registrations of artifacts by two workers at once, and
\* soft deletes in between.
NextRegister ==
    \/ \E w \in Workers, b \in 1..3, n \in Names :
          /\ sessions[w].calls < MaxCalls
          /\ create_artifact_check(w, b, n, TrackerStateCode, TRUE)
    \/ \E w \in Workers :
          create_artifact_insert(w) /\ Len(build_artifacts') <= MaxArtifacts
    \/ \E b \in 1..2, a \in 1..MaxArtifacts : delete_artifact(b, a)

SpecRegister == InitTwoBuilds /\ [][NextRegister]_vars

\* ------------------------------------------------------------------ error kinds
\* The spec's taxonomy, read off the HTTP response of the handler.
NotFound(r) == r.code = 404
InvalidState(r) == r.code = 400 /\ r.detail \in {"terminal", "state not found"}

\* A step taken by handler op on row target: every handler writes its own
\* name into the response, so the response after the step tells who took it.
StepOf(op, target) == res'.op = op /\ res'.target = target

\* ------------------------------------------------------------------ C1
\* C1: after any sequence of create_build, transition and record_failure
\* calls, a build has its end time set if and only if its status is
\* completed or failed.
C1_EndTimeIffTerminalStatus ==
    \A b \in BuildIds : builds[b].ended <=> builds[b].status \in {"completed", "failed"}

\* A build that a transition to an error (not final) state has ended.
C1_Witness ==
    \E b \in BuildIds :
        /\ res.op = "update_build_state" /\ res.code = 200 /\ res.target = b
        /\ builds[b].ended /\ builds[b].status = "failed"
        /\ ~StateCode(builds[b].current_state_code_id).is_final

\* ------------------------------------------------------------------ C2
\* C2: a transition requested on a build whose end time is set fails with
\* InvalidState ("terminal") whatever state name it carries, and changes
\* neither a build row nor the history.
C2_TerminalTransitionRejected ==
    [][\A b \in BuildIds :
          (builds[b].ended /\ StepOf("update_build_state", b))
             => /\ InvalidState(res') /\ res'.detail = "terminal"
                /\ builds' = builds
                /\ build_states' = build_states
                /\ state_codes' = state_codes]_vars

\* A terminal build was asked to move to a name that is active in its
\* project, and the registry also holds a deactivated name (the request is
\* drawn with every name in that state).
C2_Witness ==
    \E b \in BuildIds :
        /\ builds[b].ended
        /\ res.op = "update_build_state" /\ res.target = b /\ res.detail = "terminal"
        /\ ActiveByName(builds[b].project_id, res.arg) # {}
        /\ \E id \in StateCodeIds :
              /\ StateCode(id).ended
              /\ StateCode(id).project_id = builds[b].project_id
              /\ ActiveByName(builds[b].project_id, StateCode(id).name) = {}

\* ------------------------------------------------------------------ C3
\* C3: a successful record_failure leaves the build's current state pointer
\* unchanged; it sets status failed and the end time, touches no other
\* build, and appends exactly one history row, at that unchanged state with
\* status failed.
C3_FailureKeepsPointer ==
    [][\A b \in BuildIds :
          (StepOf("record_build_failure", b) /\ res'.code = 200)
             => /\ builds' = [builds EXCEPT ![b] =
                                 [@ EXCEPT !.status = "failed", !.ended = TRUE]]
                /\ builds'[b].current_state_code_id = builds[b].current_state_code_id
                /\ build_states' = Append(build_states,
                       [build_id |-> b, state |-> builds[b].current_state_code_id,
                        status |-> "failed"])]_vars

\* A failure recorded on a build that had moved off state 0.
C3_Witness ==
    \E b \in BuildIds :
        /\ res.op = "record_build_failure" /\ res.code = 200 /\ res.target = b
        /\ builds[b].status = "failed"
        /\ builds[b].current_state_code_id # 0
        /\ build_states[Len(build_states)].state = builds[b].current_state_code_id

\* ------------------------------------------------------------------ C4
\* C4 as stated: record_failure on an absent or an already terminal build
\* fails with NotFound and changes nothing.
C4_Original ==
    [][\A b \in 1..(MaxBuilds + 1) :
          (StepOf("record_build_failure", b) /\ (b \notin BuildIds \/ builds[b].ended))
             => /\ NotFound(res')
                /\ builds' = builds /\ build_states' = build_states]_vars

\* C4 as amended: record_failure fails with NotFound (404) on an absent build
\* and with the 400 "already completed or failed" error on a terminal build;
\* in both cases neither a build row nor the history changes.
C4_FailureRejected ==
    [][\A b \in 1..(MaxBuilds + 1) :
          /\ (StepOf("record_build_failure", b) /\ b \notin BuildIds)
                => /\ NotFound(res')
                   /\ builds' = builds /\ build_states' = build_states
          /\ (StepOf("record_build_failure", b) /\ b \in BuildIds /\ builds[b].ended)
                => /\ res'.code = 400 /\ res'.detail = "terminal"
                   /\ builds' = builds /\ build_states' = build_states]_vars

\* A failure was refused on a build that is terminal.
C4_Witness ==
    \E b \in BuildIds :
        /\ builds[b].ended
        /\ res.op = "record_build_failure" /\ res.target = b /\ res.code = 400

\* ------------------------------------------------------------------ C5
\* The position of the latest history row of build b with a status in
\* statuses, 0 when there is none.
LastPosition(b, statuses) ==
    LET rows == {h \in 1..Len(build_states) :
                    build_states[h].build_id = b /\ build_states[h].status \in statuses}
    IN  IF rows = {} THEN 0 ELSE CHOOSE h \in rows : \A g \in rows : g <= h

ContextReturned == res.op = "get_resume_context" /\ res.code = 200

HistoryOf(b) == SelectSeq(build_states, LAMBDA row : row.build_id = b)

\* Build b went: created, moved to a non-terminal state, failure recorded;
\* and one artifact, resumable and not deleted, is all that was registered.
FailureScenario(b) ==
    /\ Len(HistoryOf(b)) = 3
    /\ HistoryOf(b)[1].status = "running"
    /\ HistoryOf(b)[2].status = "running"
    /\ HistoryOf(b)[3].status = "failed"
    /\ Len(build_artifacts) = 1
    /\ build_artifacts[1].build_id = b
    /\ build_artifacts[1].is_resumable /\ ~build_artifacts[1].deleted

\* C6: after create build, transition to a non-terminal state S, register
\* one resumable artifact and record_failure, the resume context has
\* failed_state = S, resume_from_state = S, last_successful_state = None and
\* artifacts = the registered artifact alone.
C6_ScenarioContext ==
    (ContextReturned /\ FailureScenario(res.target)) =>
       LET S == HistoryOf(res.target)[2].state
       IN  /\ res.body.failed_state = <<S>>
           /\ res.body.resume_from_state = S
           /\ res.body.last_successful_state = <<>>
           /\ res.body.artifacts = <<1>>

\* ------------------------------------------------------------------ C7
Conflict(r) == r.code = 400 /\ r.detail = "artifact exists"

\* The non-deleted, and the deleted, artifacts of build b named n.
LiveNamed(b, n) ==
    {a \in 1..Len(build_artifacts) : /\ build_artifacts[a].build_id = b
                                     /\ build_artifacts[a].artifact_name = n
                                     /\ ~build_artifacts[a].deleted}

DeletedNamed(b, n) ==
    {a \in 1..Len(build_artifacts) : /\ build_artifacts[a].build_id = b
                                     /\ build_artifacts[a].artifact_name = n
                                     /\ build_artifacts[a].deleted}

\* C7: registering a name that a non-deleted artifact of the build carries
\* fails with Conflict and inserts nothing; when the only artifacts of that
\* name are soft-deleted, registering it succeeds and inserts one row.
C7_DuplicateNameConflict ==
    [][\A b \in BuildIds, n \in Names :
          (StepOf("create_artifact", b) /\ res'.arg = n)
             => /\ LiveNamed(b, n) # {}
                      => Conflict(res') /\ build_artifacts' = build_artifacts
                /\ (LiveNamed(b, n) = {} /\ DeletedNamed(b, n) # {})
                      => /\ res'.code = 201
                         /\ Len(build_artifacts') = Len(build_artifacts) + 1
                         /\ SubSeq(build_artifacts', 1, Len(build_artifacts)) = build_artifacts
                         /\ build_artifacts'[Len(build_artifacts')].build_id = b
                         /\ build_artifacts'[Len(build_artifacts')].artifact_name = n
                         /\ ~build_artifacts'[Len(build_artifacts')].deleted]_vars

\* A name registered again after its first artifact was soft-deleted.
C7_Witness ==
    /\ res.op = "create_artifact" /\ res.code = 201
    /\ DeletedNamed(res.target, res.arg) # {}
    /\ Cardinality(LiveNamed(res.target, res.arg)) = 1

\* ------------------------------------------------------------------ C8
\* C8: after any sequence of register, update and soft_delete calls, no two
\* non-deleted artifacts of a build carry the same artifact_name.
C8_UniqueLiveNames ==
    \A b \in BuildIds, n \in Names : Cardinality(LiveNamed(b, n)) <= 1

\* ------------------------------------------------------------------ C9
\* The rows of build b with key k.
RowsWithKey(table, b, k) ==
    {v \in 1..Len(table) : table[v].build_id = b /\ table[v].variable_key = k}

\* C9: after any sequence of set, update and delete calls, a build holds at
\* most one row per key; and a set() of a key the build already holds adds
\* no row and leaves that key's single row with the value and the flags of
\* this later call.
C9_UpsertKeepsOneRow ==
    /\ [](\A b \in BuildIds, k \in Keys : Cardinality(RowsWithKey(build_variables, b, k)) <= 1)
    /\ [][\A b \in BuildIds, k \in Keys :
            (StepOf("set_variable", b) /\ res'.arg = k /\ RowsWithKey(build_variables, b, k) # {})
               => \A v \in Values, s \in BOOLEAN, r \in BOOLEAN :
                    set_variable(b, k, v, s, r)
                     => /\ Len(build_variables') = Len(build_variables)
                        /\ \A row \in RowsWithKey(build_variables', b, k) :
                              /\ build_variables'[row].variable_value = v
                              /\ build_variables'[row].is_sensitive = s
                              /\ build_variables'[row].is_required_for_resume = r
                        /\ Cardinality(RowsWithKey(build_variables', b, k)) = 1]_vars

\* The last call set key k1 of a build again: its row still precedes the
\* row of k2, which was inserted after it.
C9_Witness ==
    /\ res.op = "set_variable" /\ res.code = 201
    /\ Len(build_variables) = 2
    /\ build_variables[1].build_id = res.target
    /\ build_variables[1].variable_key = res.arg
    /\ build_variables[2].build_id = res.target
    /\ build_variables[2].variable_key # res.arg

\* ------------------------------------------------------------------ C10
\* The stores that differ from table at most in the stored values of the
\* variables flagged is_sensitive.
SensitiveVariants(table) ==
    {[v \in 1..Len(table) |->
         [table[v] EXCEPT !.variable_value =
             IF table[v].is_sensitive THEN secret[v] ELSE @]] :
       secret \in [1..Len(table) -> Values]}

\* C10: the output of as_dict (with any required_for_resume filter) and the
\* variables of the resume context are the same for every store that
\* differs only in the values of sensitive variables, and show a sensitive
\* variable as the mask string.
C10_SensitiveValuesMasked ==
    /\ (res.op = "get_variables_dict" /\ res.code = 200) =>
          /\ \A other \in SensitiveVariants(build_variables) :
                res.body = VariablesDict(other, res.target, res.filter)
          /\ \A v \in 1..Len(build_variables) :
                (/\ build_variables[v].build_id = res.target
                 /\ build_variables[v].is_sensitive
                 /\ build_variables[v].variable_key \in DOMAIN res.body)
                   => res.body[build_variables[v].variable_key] = Mask
    /\ ContextReturned =>
          /\ \A other \in SensitiveVariants(build_variables) :
                res.body.variables = ContextVariables(other, res.target)
          /\ \A v \in 1..Len(build_variables) :
                (build_variables[v].build_id = res.target /\ build_variables[v].is_sensitive)
                   => res.body.variables[build_variables[v].variable_key] = Mask

\* as_dict returned a build's variables, one of them sensitive and shown as
\* the mask, another one not sensitive and shown as stored.
C10_Witness ==
    /\ res.op = "get_variables_dict" /\ res.code = 200
    /\ \E v, w \in 1..Len(build_variables) :
          /\ build_variables[v].build_id = res.target
          /\ build_variables[w].build_id = res.target
          /\ build_variables[v].is_sensitive /\ ~build_variables[w].is_sensitive
          /\ build_variables[v].variable_key \in DOMAIN res.body
          /\ build_variables[w].variable_key \in DOMAIN res.body
          /\ res.body[build_variables[v].variable_key] = Mask
          /\ res.body[build_variables[w].variable_key] = build_variables[w].variable_value

\* ------------------------------------------------------------------ C11
\* C11: the artifacts of the resume context are exactly the build's
\* non-deleted resumable artifacts, each once, by state_code ascending and,
\* among equal state_code, in creation order.
C11_ContextArtifactsSorted ==
    ContextReturned =>
       LET listed == res.body.artifacts
           b == res.target
       IN  /\ {listed[i] : i \in 1..Len(listed)}
                 = {a \in 1..Len(build_artifacts) :
                       /\ build_artifacts[a].build_id = b
                       /\ build_artifacts[a].is_resumable
                       /\ ~build_artifacts[a].deleted}
           /\ \A i, j \in 1..Len(listed) :
                 i < j => \/ build_artifacts[listed[i]].state_code
                                < build_artifacts[listed[j]].state_code
                          \/ /\ build_artifacts[listed[i]].state_code
                                = build_artifacts[listed[j]].state_code
                             /\ listed[i] < listed[j]

\* ------------------------------------------------------------------ C12
InvalidArgument(r) ==
    /\ r.code = 400
    /\ r.detail \in {"resume_from_state must be >= 0",
                      "resume_to_state must be greater than resume_from_state"}

\* C12: creating a resume request for a build with resume_from_state < 0, or
\* with a resume_to_state that is given and <= resume_from_state, fails with
\* InvalidArgument and inserts nothing; a request that is inserted starts
\* with orchestration_status pending.
C12_ResumeRangeValidated ==
    [][/\ (res'.op = "create_resume_request" /\ res'.target \in BuildIds) =>
             \A from \in ResumeFromStates, to \in Opt(ResumeToStates) :
                (/\ from < 0 \/ (to # <<>> /\ to[1] <= from)
                 /\ \E d \in RequestDetails :
                       create_resume_request(res'.target, from, to, d[1], d[2], d[3]))
                   => InvalidArgument(res') /\ resume_requests' = resume_requests
       /\ Len(resume_requests') > Len(resume_requests)
             => resume_requests'[Len(resume_requests')].orchestration_status = <<"pending">>
      ]_vars

\* A request whose resume_to_state does not exceed its resume_from_state was
\* refused.
C12_Witness ==
    /\ res.op = "create_resume_request" /\ res.code = 400
    /\ res.target \in BuildIds
    /\ res.detail = "resume_to_state must be greater than resume_from_state"

\* ------------------------------------------------------------------ C13
\* The fields of a request that are fixed at creation.
BusinessFields(request) ==
    <<request.build_id, request.resume_from_state, request.resume_to_state,
      request.resume_reason, request.requested_by, request.request_source>>

\* C13: no step removes a request or changes the build_id, resume_from_state,
\* resume_to_state, reason, requested_by or source of a request that exists,
\* and a created request carries these fields as its creation gave them
\* (requested_by is the caller when the request names nobody); so
\* after any sequence of updates they equal the values given at creation.
C13_BusinessFieldsImmutable ==
    [][/\ Len(resume_requests') >= Len(resume_requests)
       /\ \A q \in ResumeRequestIds :
             BusinessFields(resume_requests'[q]) = BusinessFields(resume_requests[q])
       /\ (res'.op = "create_resume_request" /\ res'.code = 201) =>
             \A from \in ResumeFromStates, to \in Opt(ResumeToStates), d \in RequestDetails :
                create_resume_request(res'.target, from, to, d[1], d[2], d[3])
                   => BusinessFields(resume_requests'[Len(resume_requests')])
                         = <<res'.target, from, to, d[1],
                             IF d[2] # <<>> THEN d[2][1] ELSE CurrentUser, d[3]>>
      ]_vars

\* An update has moved a request on from pending and given it a job id.
C13_Witness ==
    /\ res.op = "update_resume_request" /\ res.code = 200
    /\ resume_requests[res.target].orchestration_status = <<"running">>
    /\ resume_requests[res.target].orchestration_job_id = <<"job-1">>

\* ------------------------------------------------------------------ C14
\* C14: after any sequence of state-code create, update and deactivate
\* calls, each project has at most one active state code with is_initial.
C14_OneActiveInitial ==
    \A p \in Projects :
       Cardinality({id \in 1..Len(state_codes) :
                       /\ state_codes[id].project_id = p
                       /\ state_codes[id].is_initial
                       /\ ~state_codes[id].ended}) <= 1

\* ------------------------------------------------------------------ C15
\* The builds without end time whose current state is state code id.
RunningAt(id) ==
    {b \in 1..Len(builds) : builds[b].current_state_code_id = id /\ ~builds[b].ended}

\* C15: deactivating a state code that a build without end time has as its
\* current state is refused and changes nothing; a deactivation that is
\* accepted sets the end timestamp of that row and nothing else; no step
\* removes a state-code row.
C15_DeactivationGuarded ==
    [][/\ Len(state_codes') >= Len(state_codes)
       /\ \A id \in StateCodeIds :
             StepOf("delete_state_code", id) =>
                /\ RunningAt(id) # {} =>
                      /\ res'.code = 400 /\ res'.detail = "in use"
                      /\ state_codes' = state_codes
                /\ res'.code = 204 =>
                      /\ ~state_codes[id + 1].ended
                      /\ state_codes' = [state_codes EXCEPT ![id + 1].ended = TRUE]
      ]_vars

\* The deactivation of the state code a running build is at was refused.
C15_Witness ==
    /\ res.op = "delete_state_code" /\ res.code = 400 /\ res.detail = "in use"
    /\ RunningAt(res.target) # {}
    /\ ~state_codes[res.target + 1].ended

\* ------------------------------------------------------------------ C16
\* The ids of the active state codes of project p flagged is_initial.
InitialCodes(p) ==
    {id \in 0..(Len(state_codes) - 1) : /\ state_codes[id + 1].project_id = p
                                         /\ state_codes[id + 1].is_initial
                                         /\ ~state_codes[id + 1].ended}

\* What a successful create_build of project p leaves: one more build,
\* running, without end time, at an active initial state code of p, and one
\* more history row, the only one of that build, at that state and running.
BuildCreated(p) ==
    LET b == Len(builds) + 1
    IN  /\ res'.code = 201 /\ res'.target = b
        /\ Len(builds') = b /\ SubSeq(builds', 1, Len(builds)) = builds
        /\ builds'[b].project_id = p
        /\ builds'[b].status = "running" /\ ~builds'[b].ended
        /\ builds'[b].current_state_code_id \in InitialCodes(p)
        /\ build_states' = Append(build_states,
                                   [build_id |-> b,
                                    state |-> builds'[b].current_state_code_id,
                                    status |-> "running"])
        /\ \A h \in 1..Len(build_states) : build_states[h].build_id # b

C17_ContextReadOnlyRepeatable ==
    [][res'.op = "get_resume_context" =>
         /\ UNCHANGED <<state_codes, builds, build_states, build_artifacts,
                        build_variables, resumable_states, resume_requests, sessions>>
         /\ (res.op = "get_resume_context" /\ res.target = res'.target) => res' = res
      ]_vars

\* ------------------------------------------------------------------ C18
\* Worker w is about to commit a call that raced with the last call of
\* worker v on the same build: both read the build at the same point of the
\* history, and v has committed since.
Raced(w, v) ==
    /\ v # w
    /\ sessions[w].pc = "read" /\ sessions[v].pc = "done"
    /\ sessions[v].build_id = sessions[w].build_id
    /\ sessions[v].read_at = sessions[w].read_at

\* The second commit of a race succeeds and keeps both history rows.
BothKept(w, v) ==
    /\ res'.code = 200 /\ res'.op = sessions[w].op
    /\ build_states' = Append(build_states, sessions[w].row)
    /\ build_states[sessions[w].read_at + 1] = sessions[v].row

\* C18 as stated: when two transition/record_failure calls on a running
\* build both read it before either commits, both succeed, both history
\* rows are kept, and the Build row holds what the call that committed last
\* wrote: its status, its target state if it is a transition, and the end
\* time if it set one.
C18_Original ==
    [][\A w, v \in Workers :
          (Raced(w, v) /\ sessions'[w].pc = "done") =>
             LET b == sessions[w].build_id
             IN  /\ BothKept(w, v)
                 /\ builds'[b].status = sessions[w].object.status
                 /\ sessions[w].op = "update_build_state"
                       => builds'[b].current_state_code_id
                             = sessions[w].object.current_state_code_id
                 /\ sessions[w].object.ended => builds'[b].ended
      ]_vars

\* C18 as amended: both calls succeed and both history rows are kept; of the
\* Build row, the call that committed last overwrites only the columns it set
\* to another value than it had read: the row keeps the first call's status
\* when the last call's new status is running, keeps the first call's state
\* pointer when the last call is a record_failure or a transition to the
\* state both had read, and has its end time set if either call set it.
C18_LastChangedColumnWins ==
    [][\A w, v \in Workers :
          (Raced(w, v) /\ sessions'[w].pc = "done") =>
             LET b == sessions[w].build_id
                 mine == sessions[w].object
                 read == sessions[w].loaded
             IN  /\ BothKept(w, v)
                 /\ read.status = "running" /\ ~read.ended
                 /\ builds'[b].status =
                       IF mine.status # "running" THEN mine.status ELSE builds[b].status
                 /\ builds'[b].current_state_code_id =
                       IF mine.current_state_code_id # read.current_state_code_id
                       THEN mine.current_state_code_id
                       ELSE builds[b].current_state_code_id
                 /\ builds'[b].ended = (builds[b].ended \/ mine.ended)
                 /\ builds'[b].project_id = builds[b].project_id
      ]_vars

\* A race in which a transition to a final state committed first and a
\* transition to a plain state last: the build is at the plain state with
\* the status and the end time of the first.
C18_Witness ==
    \E w, v \in Workers :
       /\ w # v
       /\ sessions[w].pc = "done" /\ sessions[v].pc = "done"
       /\ sessions[w].build_id = sessions[v].build_id
       /\ sessions[w].read_at = sessions[v].read_at
       /\ Len(build_states) = sessions[w].read_at + 2
       /\ build_states[Len(build_states)] = sessions[w].row
       /\ build_states[Len(build_states) - 1] = sessions[v].row
       /\ sessions[w].object.status = "running"
       /\ sessions[v].object.status = "completed"
       /\ builds[sessions[w].build_id].status = "completed"
       /\ builds[sessions[w].build_id].current_state_code_id
             = sessions[w].object.current_state_code_id

\* ------------------------------------------------------------------ C19
\* The positions in the history of the rows of a build.
RowsOf(build_id) == {i \in 1..Len(build_states) : build_states[i].build_id = build_id}

\* The most recent history row of a build carries the build's state pointer
\* and the build's status.
HistoryAgrees(build_id) ==
    /\ RowsOf(build_id) # {}
    /\ build_states[Max(RowsOf(build_id))].state = builds[build_id].current_state_code_id
    /\ build_states[Max(RowsOf(build_id))].status = builds[build_id].status

\* C19: each write (create_build, a transition, record_failure) changes the
\* Build row and appends its history row in the same step: a step that
\* touches the builds or the history appends exactly one history row, changes
\* no other build than the one of that row, and leaves the most recent
\* history row of every build with the build's current_state_code_id as its
\* state and the build's status as its status. (No build exists initially,
\* so the agreement holds in every state reachable without interleaved
\* writers.)
C19_HistoryAgreesWithBuild ==
    [][(builds' # builds \/ build_states' # build_states) =>
          /\ Len(build_states') = Len(build_states) + 1
          /\ SubSeq(build_states', 1, Len(build_states)) = build_states
          /\ LET row == build_states'[Len(build_states')]
             IN  /\ row.build_id \in 1..Len(builds')
                 /\ \A b \in BuildIds \ {row.build_id} : builds'[b] = builds[b]
          /\ \A b \in 1..Len(builds') : HistoryAgrees(b)'
      ]_vars

\* A build that was created and then failed: at least two history rows, the
\* last one the failure row at the state the build points to.
C19_Witness ==
    \E b \in BuildIds :
       /\ Cardinality(RowsOf(b)) >= 2
       /\ res.op = "record_build_failure" /\ res.code = 200 /\ res.target = b
       /\ builds[b].status = "failed"
       /\ build_states[Max(RowsOf(b))].status = "failed"
       /\ build_states[Max(RowsOf(b))].state = builds[b].current_state_code_id

\* ------------------------------------------------------------------ C20
\* The soft-deleted artifacts.
DeletedArtifacts == {a \in ArtifactIds : build_artifacts[a].deleted}

\* The artifact ids a list or resume-context response returns.
ReturnedArtifacts(listed) == {listed[i] : i \in 1..Len(listed)}

\* C20: a soft delete only sets the deleted timestamp of its row; from then
\* on the row stays as it is (never removed, never changed, the timestamp
\* never cleared), list_artifacts and the resume context do not return it,
\* and get, update and a second delete of it fail with NotFound.
C20_SoftDeletedHidden ==
    [][/\ build_artifacts' # build_artifacts =>
             \A a \in DeletedArtifacts :
                a \in 1..Len(build_artifacts') /\ build_artifacts'[a] = build_artifacts[a]
       /\ (res'.op = "delete_artifact" /\ res'.code = 204) =>
             /\ res'.target \in ArtifactIds
             /\ ~build_artifacts[res'.target].deleted
             /\ build_artifacts' = [build_artifacts EXCEPT ![res'.target].deleted = TRUE]
       /\ (res'.op = "list_artifacts" /\ res'.code = 200) =>
             ReturnedArtifacts(res'.body) \cap DeletedArtifacts = {}
       /\ (res'.op = "get_resume_context" /\ res'.code = 200) =>
             ReturnedArtifacts(res'.body.artifacts) \cap DeletedArtifacts = {}
       /\ (/\ res'.op \in {"get_artifact", "update_artifact", "delete_artifact"}
           /\ res'.target \in DeletedArtifacts) =>
             NotFound(res')
      ]_vars

\* A resumable artifact of build 1 was soft-deleted and then asked for
\* again: the row is still in the table, the answer is 404.
C20_Witness ==
    /\ res.op \in {"get_artifact", "update_artifact", "delete_artifact"}
    /\ res.target \in DeletedArtifacts
    /\ build_artifacts[res.target].is_resumable
    /\ build_artifacts[res.target].build_id = 1
    /\ res.code = 404

\* ------------------------------------------------------------------ C21
\* The step is a successful create_build, transition or record_failure.
HistoryWrite ==
    /\ res'.op \in {"create_build", "update_build_state", "record_build_failure"}
    /\ res'.code \in {200, 201}

\* C21: the history is append-only: a successful create_build, transition
\* or record_failure appends exactly one row, of the build it answers for,
\* and leaves the rows before it as they were; a failed call and every
\* other operation leave the history as it is.
C21_HistoryAppendOnly ==
    [][IF HistoryWrite
       THEN /\ Len(build_states') = Len(build_states) + 1
            /\ SubSeq(build_states', 1, Len(build_states)) = build_states
            /\ build_states'[Len(build_states')].build_id = res'.target
       ELSE build_states' = build_states
      ]_vars

\* A transition refused on a build that has two history rows already: the
\* rows of the creation and of the failure are still there.
C21_Witness ==
    /\ res.op = "update_build_state" /\ res.code = 400 /\ res.target = 1
    /\ Len(build_states) >= 2
    /\ build_states[1].status = "running"
    /\ build_states[Len(build_states)].status = "failed"

\* ------------------------------------------------------------------ C22
\* C22: the resume context has resume_from_state = failed_state whenever
\* failed_state is not None, the numeric state 0 included, and
\* resume_from_state = current_state only when failed_state is None.
C22_ResumeFromFailedStateZero ==
    ContextReturned =>
       IF res.body.failed_state # <<>>
       THEN res.body.resume_from_state = res.body.failed_state[1]
       ELSE res.body.resume_from_state = res.body.current_state

\* ------------------------------------------------------------------ C23
\* C23: a successful transition sets status and end_time from the flags of
\* the target state code: is_final gives completed with end_time set,
\* otherwise is_error gives failed with end_time set, otherwise running with
\* end_time unset; a target flagged final and error gives completed.
C23_StatusFromTargetFlags ==
    [][\A b \in BuildIds :
          (StepOf("update_build_state", b) /\ res'.code = 200) =>
             LET target_state == StateCode(builds'[b].current_state_code_id)
             IN  /\ target_state.name = res'.arg
                 /\ builds'[b].status =
                       IF target_state.is_final THEN "completed"
                       ELSE IF target_state.is_error THEN "failed"
                       ELSE "running"
                 /\ builds'[b].ended = (target_state.is_final \/ target_state.is_error)
      ]_vars

\* A transition to a state code flagged both final and error went through:
\* the build is completed and ended.
C23_Witness ==
    \E b \in BuildIds :
       /\ res.op = "update_build_state" /\ res.code = 200 /\ res.target = b
       /\ StateCode(builds[b].current_state_code_id).is_final
       /\ StateCode(builds[b].current_state_code_id).is_error
       /\ builds[b].status = "completed" /\ builds[b].ended

\* ------------------------------------------------------------------ C24
\* The active state codes of the project of build b that carry the name n.
Resolves(b, n) ==
    {id \in 0..(Len(state_codes) - 1) :
        /\ state_codes[id + 1].project_id = builds[b].project_id
        /\ state_codes[id + 1].name = n
        /\ ~state_codes[id + 1].ended}

\* C24: a transition of a running build succeeds for every target name that
\* resolves to an active state code of the build's own project, whichever
\* state the build is at (the target may be the current or the initial
\* state), and moves the build to such a state code; it fails with
\* InvalidState and changes nothing when the name is unknown, deactivated
\* or carried only by a state code of another project.
C24_AnyActiveTarget ==
    [][\A b \in BuildIds :
          (StepOf("update_build_state", b) /\ ~builds[b].ended) =>
             IF Resolves(b, res'.arg) # {}
             THEN /\ res'.code = 200
                  /\ builds'[b].current_state_code_id \in Resolves(b, res'.arg)
             ELSE /\ InvalidState(res') /\ res'.detail = "state not found"
                  /\ builds' = builds /\ build_states' = build_states
      ]_vars

\* A transition of a running build was refused for a name that only an
\* active state code of another project carries, after the build had gone
\* back to a state it had been at before.
C24_Witness ==
    \E b \in BuildIds :
       /\ res.op = "update_build_state" /\ res.target = b
       /\ res.code = 400 /\ res.detail = "state not found"
       /\ ~builds[b].ended
       /\ \E id \in 0..(Len(state_codes) - 1) :
             /\ state_codes[id + 1].name = res.arg
             /\ ~state_codes[id + 1].ended
             /\ state_codes[id + 1].project_id # builds[b].project_id
       /\ Len(build_states) >= 3
       /\ build_states[1].state = build_states[Len(build_states)].state
       /\ build_states[2].state # build_states[1].state

\* ------------------------------------------------------------------ C25
\* What get_resume_context answers about the state of build b when all its
\* queries see the same Build row and the same history.
SnapshotContext(db_build, history, b) ==
    LET rows(statuses) == {h \in 1..Len(history) : /\ history[h].build_id = b
                                                    /\ history[h].status \in statuses}
        completed == rows({"completed"})
        failed == rows({"failed", "error"})
        failed_state == IF failed = {} THEN <<>> ELSE <<history[Max(failed)].state>>
    IN  [current_state |-> db_build.current_state_code_id,
         last_successful_state |->
            IF completed = {} THEN <<0>> ELSE <<history[Max(completed)].state>>,
         failed_state |-> failed_state,
         resume_from_state |->
            ResumeFromState(failed_state, db_build.current_state_code_id)]

\* The fields of a resume context that describe the state of the build.
StateFields(body) ==
    [current_state |-> body.current_state,
     last_successful_state |-> body.last_successful_state,
     failed_state |-> body.failed_state,
     resume_from_state |-> body.resume_from_state]

\* C25: a get_resume_context call during which exactly one transition or
\* record_failure of the same build commits returns the context of the
\* state before that write or the context of the state after it, never
\* fields of both.
C25_ContextNotMixed ==
    [][\A w \in Workers :
          (/\ sessions[w].pc = "completed" /\ sessions'[w].pc = "idle"
           /\ Len(build_states) = sessions[w].read_at + 1) =>
             LET b == sessions[w].build_id
             IN  StateFields(res'.body) \in
                    {SnapshotContext(sessions[w].loaded,
                                     SubSeq(build_states, 1, sessions[w].read_at), b),
                     SnapshotContext(builds[b], build_states, b)}
      ]_vars

\* ------------------------------------------------------------------ C26
\* The history of every build has at most one row with status completed,
\* failed or error, and that row is the build's most recent one.
TerminalRowLast ==
    \A b \in BuildIds :
       \A h \in RowsOf(b) :
          build_states[h].status \in {"completed", "failed", "error"}
             => h = Max(RowsOf(b))

\* C26: in every state reached by create_build, transition and
\* record_failure calls served one at a time, the history of a build has at
\* most one completed, failed or error row and that row is its most recent
\* one; hence no resume context has both last_successful_state and
\* failed_state set.
C26_OneTerminalRow ==
    /\ TerminalRowLast
    /\ ContextReturned =>
          ~(res.body.last_successful_state # <<>> /\ res.body.failed_state # <<>>)

\* ------------------------------------------------------------------ C27
\* C27: in every state reached by operations served one at a time, the
\* resume context has resume_from_state equal to current_state, the build's
\* pointer: a failed or error row, when there is one, was recorded at the
\* state the pointer still holds.
C27_ResumeFromCurrentState ==
    ContextReturned =>
       /\ res.body.current_state = builds[res.target].current_state_code_id
       /\ res.body.resume_from_state = res.body.current_state
       /\ res.body.failed_state # <<>> =>
             res.body.failed_state[1] = res.body.current_state

\* The context of a build that failed at a state other than 0: the
\* resume_from_state is taken from the failed row.
C27_Witness ==
    /\ ContextReturned
    /\ res.body.failed_state # <<>>
    /\ res.body.failed_state[1] # 0
    /\ res.body.resume_from_state = res.body.failed_state[1]
    /\ builds[res.target].status = "failed"

\* ------------------------------------------------------------------ C28
\* C28: once the end_time of a build is set, no step clears it or changes
\* the build's status or current state: a terminal build stays as it is in
\* every later state.
C28_TerminalStaysTerminal ==
    [][\A b \in BuildIds :
          builds[b].ended =>
             /\ b \in 1..Len(builds')
             /\ builds'[b].ended
             /\ builds'[b].status = builds[b].status
             /\ builds'[b].current_state_code_id = builds[b].current_state_code_id
      ]_vars

\* ------------------------------------------------------------------ C29
\* C29: in every state reached by operations served one at a time, each
\* build without end_time points at a state code that exists, is active
\* (has no end timestamp) and belongs to the build's own project.
C29_RunningBuildAtActiveState ==
    \A b \in BuildIds :
       ~builds[b].ended =>
          /\ builds[b].current_state_code_id \in 0..(Len(state_codes) - 1)
          /\ ~state_codes[builds[b].current_state_code_id + 1].ended
          /\ state_codes[builds[b].current_state_code_id + 1].project_id
                = builds[b].project_id

\* A running build moved off its initial state, the initial state code was
\* deactivated behind it, and the next deactivation, of the state code the
\* build is at, was refused.
C29_Witness ==
    \E b \in BuildIds :
       /\ ~builds[b].ended
       /\ builds[b].current_state_code_id # build_states[1].state
       /\ build_states[1].build_id = b
       /\ state_codes[build_states[1].state + 1].ended
       /\ res.op = "delete_state_code" /\ res.code = 400
       /\ res.target = builds[b].current_state_code_id

\* ------------------------------------------------------------------ C30
\* C30: when two registrations of the same artifact_name for the same build
\* both run the existence check before either inserts, the second to commit
\* inserts no row: the name stays unique among the non-deleted artifacts of
\* the build.
C30_OneRegistrationInserts ==
    [][\A w, v \in Workers :
          (/\ w # v
           /\ sessions[w].pc = "checked" /\ sessions'[w].pc = "done"
           /\ sessions[v].pc = "done" /\ sessions[v].op = "create_artifact"
           /\ sessions[v].build_id = sessions[w].build_id
           /\ sessions[v].arg = sessions[w].arg
           /\ sessions[v].read_at = sessions[w].read_at) =>
             /\ build_artifacts' = build_artifacts
             /\ Cardinality(LiveNamed(sessions[w].build_id, sessions[w].arg))' <= 1
      ]_vars

====
